---- MODULE Spec2Model ----
(***************************************************************************)
(* Model of App/main.py: the generate_text relay between the Gradio form   *)
(* and the local Ollama daemon or the hosted Ollama API.                   *)
(*                                                                         *)
(* Text is a sequence of one-character strings, so that substring tests,   *)
(* str.replace, f-string concatenation and prefix tests are computed.      *)
(* A Python value is a record [t |-> type name, v |-> payload]; the        *)
(* payload is always a sequence (characters, list items or key/value       *)
(* pairs).                                                                  *)
(***************************************************************************)
EXTENDS Integers, Sequences, FiniteSets, TLC

\* ------------------------------------------------------------------ bounds
\* Number of UI sessions that may be inside generate_text at the same time.
NumSessions == 2
\* Largest number of fields of a JSON object the local daemon answers with.
MaxFields == 2
\* Largest number of name parts a model identifier is put together from.
MaxParts == 2

Sessions == 1..NumSessions

\* ------------------------------------------------------------ text literals
PleaseEnterPrompt == <<"P", "l", "e", "a", "s", "e", " ", "e", "n", "t", "e", "r", " ", "a", " ", "p", "r", "o", "m", "p", "t", ".">>
ErrorKeyNotSet == <<"E", "r", "r", "o", "r", ":", " ", "O", "L", "L", "A", "M", "A", "_", "A", "P", "I", "_", "K", "E", "Y", " ", "n", "o", "t", " ", "s", "e", "t", " ", "i", "n", " ", ".", "e", "n", "v", " ", "f", "i", "l", "e", ".">>
AnErrorOccurred == <<"A", "n", " ", "e", "r", "r", "o", "r", " ", "o", "c", "c", "u", "r", "r", "e", "d", ":", " ">>
CloudMarker == <<"c", "l", "o", "u", "d">>
DashCloud == <<"-", "c", "l", "o", "u", "d">>
KeyResponse == <<"r", "e", "s", "p", "o", "n", "s", "e">>
KeyText == <<"t", "e", "x", "t">>
KeyDone == <<"d", "o", "n", "e">>
KeyMessage == <<"m", "e", "s", "s", "a", "g", "e">>
KeyContent == <<"c", "o", "n", "t", "e", "n", "t">>
Hello == <<"h", "e", "l", "l", "o">>
Hi == <<"h", "i">>
LOCAL_OLLAMA_ENDPOINT == "http://localhost:11434/api/generate"
CLOUD_HOST == "https://ollama.com"

\* ------------------------------------------------------------ Python values
StrVal(s) == [t |-> "str", v |-> s]
NoneVal == [t |-> "None", v |-> <<>>]
IntVal(digits) == [t |-> "int", v |-> digits]
ListVal(items) == [t |-> "list", v |-> items]
DictVal(items) == [t |-> "dict", v |-> items]
\* A response body that is not JSON: response.json() raises on it.
NotJson == [t |-> "notjson", v |-> <<>>]

\* What a statement does: returns a value or raises an exception.
Return(x) == [kind |-> "return", val |-> x]
Raise(type, msg) == [kind |-> "raise", val |-> [t |-> type, v |-> msg]]
Pending == [kind |-> "none", val |-> NoneVal]

\* bool(x): None, "" and empty containers are false.
Truthy(x) ==
  CASE x.t = "None" -> FALSE
    [] x.t \in {"str", "list", "dict"} -> x.v # <<>>
    [] x.t = "int" -> x.v # <<"0">>
    [] OTHER -> TRUE

\* sub in s, for two str.
Contains(sub, s) ==
  \E i \in 1..(Len(s) + 1) :
    /\ i + Len(sub) - 1 <= Len(s)
    /\ SubSeq(s, i, i + Len(sub) - 1) = sub

\* s.replace(old, new) for a non-empty old: every occurrence, found left to
\* right, none overlapping, the replaced text never scanned again.
RECURSIVE Replace(_, _, _)
Replace(s, old, new) ==
  IF Len(s) < Len(old) THEN s
  ELSE IF SubSeq(s, 1, Len(old)) = old
       THEN new \o Replace(SubSeq(s, Len(old) + 1, Len(s)), old, new)
       ELSE <<s[1]>> \o Replace(Tail(s), old, new)

\* repr(x) and str(x).
RECURSIVE Repr(_)
RECURSIVE ReprItems(_)
RECURSIVE ReprPairs(_)
ReprItems(items) ==
  IF items = <<>> THEN <<>>
  ELSE Repr(Head(items))
       \o (IF Len(items) > 1 THEN <<",", " ">> ELSE <<>>)
       \o ReprItems(Tail(items))
ReprPairs(pairs) ==
  IF pairs = <<>> THEN <<>>
  ELSE <<"'">> \o Head(pairs)[1] \o <<"'", ":", " ">> \o Repr(Head(pairs)[2])
       \o (IF Len(pairs) > 1 THEN <<",", " ">> ELSE <<>>)
       \o ReprPairs(Tail(pairs))
Repr(x) ==
  CASE x.t = "str" -> <<"'">> \o x.v \o <<"'">>
    [] x.t = "None" -> <<"N", "o", "n", "e">>
    [] x.t = "int" -> x.v
    [] x.t = "list" -> <<"[">> \o ReprItems(x.v) \o <<"]">>
    [] x.t = "dict" -> <<"{">> \o ReprPairs(x.v) \o <<"}">>
    [] OTHER -> x.v
Str(x) == IF x.t = "str" THEN x.v ELSE Repr(x)

\* key in x, for a str key.
In(key, x) ==
  CASE x.t = "dict" -> Return(\E i \in 1..Len(x.v) : x.v[i][1] = key)
    [] x.t = "list" -> Return(\E i \in 1..Len(x.v) : x.v[i] = StrVal(key))
    [] x.t = "str" -> Return(Contains(key, x.v))
    [] x.t = "int" ->
         Raise("TypeError", <<"a", "r", "g", "u", "m", "e", "n", "t", " ", "o", "f", " ", "t", "y", "p", "e", " ", "'", "i", "n", "t", "'", " ", "i", "s", " ", "n", "o", "t", " ", "i", "t", "e", "r", "a", "b", "l", "e">>)
    [] OTHER ->
         Raise("TypeError", <<"a", "r", "g", "u", "m", "e", "n", "t", " ", "o", "f", " ", "t", "y", "p", "e", " ", "'", "N", "o", "n", "e", "T", "y", "p", "e", "'", " ", "i", "s", " ", "n", "o", "t", " ", "i", "t", "e", "r", "a", "b", "l", "e">>)

\* x[key], for a str key.
GetItem(x, key) ==
  CASE x.t = "dict" ->
         IF \E i \in 1..Len(x.v) : x.v[i][1] = key
         THEN Return(x.v[CHOOSE i \in 1..Len(x.v) : x.v[i][1] = key][2])
         ELSE Raise("KeyError", Repr(StrVal(key)))
    [] x.t = "list" ->
         Raise("TypeError", <<"l", "i", "s", "t", " ", "i", "n", "d", "i", "c", "e", "s", " ", "m", "u", "s", "t", " ", "b", "e", " ", "i", "n", "t", "e", "g", "e", "r", "s", " ", "o", "r", " ", "s", "l", "i", "c", "e", "s", ",", " ", "n", "o", "t", " ", "s", "t", "r">>)
    [] x.t = "str" ->
         Raise("TypeError", <<"s", "t", "r", "i", "n", "g", " ", "i", "n", "d", "i", "c", "e", "s", " ", "m", "u", "s", "t", " ", "b", "e", " ", "i", "n", "t", "e", "g", "e", "r", "s">>)
    [] OTHER ->
         Raise("TypeError", <<"n", "o", "t", " ", "s", "u", "b", "s", "c", "r", "i", "p", "t", "a", "b", "l", "e">>)

\* ------------------------------------------------ the relay (App/main.py)
VARIABLES api_key, ollama_cloud_client, calls
vars == <<api_key, ollama_cloud_client, calls>>

\* Variant: the client is built without looking at the key.
InitClientNoKeyCheck(key, ctorRaises) ==
  IF ctorRaises THEN NoneVal
  ELSE [t |-> "Client", v |-> <<"B", "e", "a", "r", "e", "r", " ">> \o key.v]

\* Module start-up: the optional cloud client.
InitClient(key, ctorRaises) ==
  IF ~Truthy(key) THEN NoneVal
  ELSE IF ctorRaises THEN NoneVal
  ELSE [t |-> "Client", v |-> <<"B", "e", "a", "r", "e", "r", " ">> \o key.v]

\* Variant: if prompt is None
PromptMissingNoneOnly(prompt) == prompt.t = "None"

\* if not prompt
PromptMissing(prompt) == ~Truthy(prompt)

\* Variant: if model_name.endswith('-cloud')
UsesCloudSuffix(model_name) ==
  /\ Len(model_name) >= Len(DashCloud)
  /\ SubSeq(model_name, Len(model_name) - Len(DashCloud) + 1, Len(model_name)) = DashCloud

\* if 'cloud' in model_name
UsesCloud(model_name) == Contains(CloudMarker, model_name)

\* Variant: the check of the client handle is left out.
CloudUnavailableNever(client) == FALSE

\* if not ollama_cloud_client
CloudUnavailable(client) == ~Truthy(client)

\* model_name.replace('-cloud', '')
CloudModel(model_name) == Replace(model_name, DashCloud, <<>>)

\* Variant: a system message is sent ahead of the prompt.
CloudMessagesWithSystem(prompt) ==
  <<[role |-> "system", content |-> StrVal(<<>>)], [role |-> "user", content |-> prompt]>>

\* messages = [{'role': 'user', 'content': prompt}]
CloudMessages(prompt) == <<[role |-> "user", content |-> prompt]>>

\* ollama_cloud_client.chat(model_name.replace('-cloud', ''), messages=messages)
CloudRequest(client, prompt, model_name) ==
  [to |-> "cloud", host |-> CLOUD_HOST, authorization |-> client.v,
   model |-> CloudModel(model_name), messages |-> CloudMessages(prompt)]

\* requests.post(LOCAL_OLLAMA_ENDPOINT, json=data)
LocalRequest(prompt, model_name) ==
  [to |-> "local", url |-> LOCAL_OLLAMA_ENDPOINT,
   json |-> [model |-> model_name, prompt |-> prompt, stream |-> FALSE]]

\* Decimal digits of a three-digit status code.
DigitChars == <<"0", "1", "2", "3", "4", "5", "6", "7", "8", "9">>
Digits(n) ==
  <<DigitChars[(n \div 100) + 1], DigitChars[((n \div 10) % 10) + 1], DigitChars[(n % 10) + 1]>>

\* Variant: only a 5xx status raises.
RaiseForStatusServerOnly(status) ==
  IF 500 <= status /\ status < 600
  THEN Raise("HTTPError", Digits(status) \o <<" ", "S", "e", "r", "v", "e", "r", " ", "E", "r", "r", "o", "r">>)
  ELSE Return(NoneVal)

\* response.raise_for_status(): HTTPError for a 4xx or 5xx status, nothing
\* for any other status (the message is shortened to status and class).
RaiseForStatus(status) ==
  IF 400 <= status /\ status < 500
  THEN Raise("HTTPError", Digits(status) \o <<" ", "C", "l", "i", "e", "n", "t", " ", "E", "r", "r", "o", "r">>)
  ELSE IF 500 <= status /\ status < 600
  THEN Raise("HTTPError", Digits(status) \o <<" ", "S", "e", "r", "v", "e", "r", " ", "E", "r", "r", "o", "r">>)
  ELSE Return(NoneVal)

\* Variant: `text` is looked up before `response`.
LocalResultTextFirst(answer) ==
  IF answer.kind = "fault" THEN Raise("ConnectionError", answer.desc)
  ELSE IF 400 <= answer.status /\ answer.status < 600
  THEN Raise("HTTPError", Digits(answer.status))
  ELSE IF answer.body.t = "notjson"
  THEN Raise("JSONDecodeError", <<"E", "x", "p", "e", "c", "t", "i", "n", "g", " ", "v", "a", "l", "u", "e">>)
  ELSE LET res_json == answer.body
           hasResponse == In(KeyResponse, res_json)
           hasText == In(KeyText, res_json)
       IN IF hasText.kind = "raise" THEN hasText
          ELSE IF hasText.val THEN GetItem(res_json, KeyText)
          ELSE IF hasResponse.kind = "raise" THEN hasResponse
          ELSE IF hasResponse.val THEN GetItem(res_json, KeyResponse)
          ELSE Return(StrVal(Str(res_json)))

\* The local path from the answer to requests.post up to the return statement.
LocalResult(answer) ==
  IF answer.kind = "fault" THEN Raise("ConnectionError", answer.desc)
  ELSE IF RaiseForStatus(answer.status).kind = "raise"
  THEN RaiseForStatus(answer.status)
  ELSE IF answer.body.t = "notjson"
  THEN Raise("JSONDecodeError", <<"E", "x", "p", "e", "c", "t", "i", "n", "g", " ", "v", "a", "l", "u", "e">>)
  ELSE LET res_json == answer.body
           hasResponse == In(KeyResponse, res_json)
           hasText == In(KeyText, res_json)
       IN IF hasResponse.kind = "raise" THEN hasResponse
          ELSE IF hasResponse.val THEN GetItem(res_json, KeyResponse)
          ELSE IF hasText.kind = "raise" THEN hasText
          ELSE IF hasText.val THEN GetItem(res_json, KeyText)
          ELSE Return(StrVal(Str(res_json)))

\* The cloud path from the answer to chat() up to the return statement.
CloudResult(answer) ==
  IF answer.kind = "fault" THEN Raise("ResponseError", answer.desc)
  ELSE LET message == GetItem(answer.body, KeyMessage)
       IN IF message.kind = "raise" THEN message
          ELSE GetItem(message.val, KeyContent)

\* except Exception as e: return f"An error occurred: {str(e)}"
Except(outcome) ==
  IF outcome.kind = "raise"
  THEN Return(StrVal(AnErrorOccurred \o outcome.val.v))
  ELSE outcome

\* Variant: a failed request is sent once more before giving up.
AfterReplyRetry(c, answer, outcome) ==
  IF outcome.kind = "raise" /\ Len(c.sent) < 2
  THEN [c EXCEPT !.sent = Append(@, c.sent[1])]
  ELSE [c EXCEPT !.pc = "done", !.answer = answer,
                 !.outcome = IF outcome.kind = "raise"
                             THEN Return(StrVal(AnErrorOccurred \o outcome.val.v))
                             ELSE outcome]

\* The call once the backend has answered: the try body's outcome goes
\* through the except clause and the function returns; there is no loop.
AfterReply(c, answer, outcome) ==
  [c EXCEPT !.pc = "done", !.answer = answer, !.outcome = Except(outcome)]

\* ------------------------------------------------------------ environment
\* The choices of the form's model dropdown.
DropdownChoices ==
  { <<"g", "e", "m", "m", "a", ":", "2", "b">>,
    <<"s", "t", "a", "b", "l", "e", "-", "c", "o", "d", "e", ":", "3", "b">>,
    <<"p", "h", "i", "3", ":", "3", ".", "8", "b">>,
    <<"g", "p", "t", "-", "o", "s", "s", ":", "1", "2", "0", "b", "-", "c", "l", "o", "u", "d">> }

\* Model identifiers: the dropdown's, every name of up to MaxParts parts, and
\* one in which removing "-cloud" leaves another "-cloud" behind.
NameParts == { <<"m">>, DashCloud, CloudMarker, <<"C", "l", "o", "u", "d">> }
NestedName == <<"-", "c", "l", "o", "-", "c", "l", "o", "u", "d", "u", "d">>
RECURSIVE NamesOf(_)
NamesOf(n) ==
  IF n = 0 THEN {<<>>}
  ELSE NamesOf(n - 1) \cup {a \o p : a \in NamesOf(n - 1), p \in NameParts}
ModelNames == DropdownChoices \cup {NestedName} \cup (NamesOf(MaxParts) \ {<<>>})

\* Prompts the form hands over: nothing, the empty text, a text.
Prompts == {NoneVal, StrVal(<<>>), StrVal(Hi)}

\* os.environ.get('OLLAMA_API_KEY'): unset, empty or a key.
ApiKeys == {NoneVal, StrVal(<<>>), StrVal(<<"k">>)}

\* JSON objects of up to MaxFields fields, in the order the daemon wrote them.
FieldKeys == {KeyResponse, KeyText, KeyDone}
FieldValues == {StrVal(Hello), StrVal(Hi), NoneVal}
RECURSIVE ObjectsOf(_)
ObjectsOf(n) ==
  IF n = 0 THEN {<<>>}
  ELSE ObjectsOf(n - 1) \cup
       { Append(o, <<k, x>>) :
           o \in {q \in ObjectsOf(n - 1) : Len(q) = n - 1},
           k \in FieldKeys, x \in FieldValues }
DistinctKeys(o) == \A i, j \in 1..Len(o) : o[i][1] = o[j][1] => i = j
JsonObjects == {DictVal(o) : o \in {q \in ObjectsOf(MaxFields) : DistinctKeys(q)}}
JsonBodies ==
  JsonObjects \cup
  { ListVal(<<>>), ListVal(<<StrVal(KeyResponse)>>), StrVal(KeyResponse),
    IntVal(<<"4", "2">>), NoneVal, NotJson }

Statuses == {200, 304, 404, 500}
FaultTexts == { <<>>, <<"C", "o", "n", "n", "e", "c", "t", "i", "o", "n", " ", "r", "e", "f", "u", "s", "e", "d">>, <<"t", "i", "m", "e", "d", " ", "o", "u", "t">> }

NoAnswer == [kind |-> "none", desc |-> <<>>, status |-> 0, body |-> NoneVal]
Fault(desc) == [kind |-> "fault", desc |-> desc, status |-> 0, body |-> NoneVal]
Response(status, body) ==
  [kind |-> "response", desc |-> <<>>, status |-> status, body |-> body]

\* What requests.post can come back with.
LocalAnswers ==
  {Fault(d) : d \in FaultTexts} \cup
  {Response(st, b) : st \in Statuses, b \in JsonBodies}

\* What the cloud client's chat() can come back with.
ChatMessages ==
  { DictVal(<< <<KeyContent, StrVal(Hello)>> >>),
    DictVal(<< <<KeyContent, StrVal(<<>>)>> >>),
    DictVal(<< <<KeyContent, NoneVal>> >>),
    DictVal(<<>>) }
CloudAnswers ==
  {Fault(d) : d \in FaultTexts} \cup
  {Response(200, DictVal(<<>>))} \cup
  {Response(200, DictVal(<< <<KeyMessage, msg>> >>)) : msg \in ChatMessages}

\* ------------------------------------------------------------------ state
IdleCall ==
  [pc |-> "idle", prompt |-> NoneVal, model_name |-> <<>>, sent |-> <<>>,
   answer |-> NoAnswer, outcome |-> Pending]

Init ==
  /\ api_key \in ApiKeys
  /\ \E ctorRaises \in BOOLEAN : ollama_cloud_client = InitClient(api_key, ctorRaises)
  /\ calls = [s \in Sessions |-> IdleCall]

\* The form calls generate_text(prompt, model_name).
Invoke(s, prompt, model_name) ==
  /\ calls[s].pc = "idle"
  /\ calls' = [calls EXCEPT ![s] =
       [IdleCall EXCEPT !.pc = "routing", !.prompt = prompt, !.model_name = model_name]]
  /\ UNCHANGED <<api_key, ollama_cloud_client>>

\* generate_text from its first line to the blocking backend call, or to the
\* return statement reached before any call.
Route(s) ==
  /\ calls[s].pc = "routing"
  /\ LET c == calls[s] IN
       calls' = [calls EXCEPT ![s] =
         IF PromptMissing(c.prompt)
         THEN [c EXCEPT !.pc = "done", !.outcome = Return(StrVal(PleaseEnterPrompt))]
         ELSE IF UsesCloud(c.model_name)
         THEN IF CloudUnavailable(ollama_cloud_client)
              THEN [c EXCEPT !.pc = "done", !.outcome = Except(Return(StrVal(ErrorKeyNotSet)))]
              ELSE [c EXCEPT !.pc = "cloud_call",
                             !.sent = Append(@, CloudRequest(ollama_cloud_client, c.prompt, c.model_name))]
         ELSE [c EXCEPT !.pc = "local_call",
                        !.sent = Append(@, LocalRequest(c.prompt, c.model_name))]]
  /\ UNCHANGED <<api_key, ollama_cloud_client>>

\* chat() comes back (or raises) and generate_text runs to its return.
CloudReply(s, answer) ==
  /\ calls[s].pc = "cloud_call"
  /\ calls' = [calls EXCEPT ![s] = AfterReply(@, answer, CloudResult(answer))]
  /\ UNCHANGED <<api_key, ollama_cloud_client>>

\* requests.post comes back (or raises) and generate_text runs to its return.
LocalReply(s, answer) ==
  /\ calls[s].pc = "local_call"
  /\ calls' = [calls EXCEPT ![s] = AfterReply(@, answer, LocalResult(answer))]
  /\ UNCHANGED <<api_key, ollama_cloud_client>>

\* The form shows the returned text; the session can call again.
Finish(s) ==
  /\ calls[s].pc = "done"
  /\ calls' = [calls EXCEPT ![s] = IdleCall]
  /\ UNCHANGED <<api_key, ollama_cloud_client>>

\* One session, every input and every backend behaviour.
Next ==
  \E s \in {1} :
    \/ \E p \in Prompts, m \in ModelNames : Invoke(s, p, m)
    \/ Route(s)
    \/ \E a \in CloudAnswers : CloudReply(s, a)
    \/ \E a \in LocalAnswers : LocalReply(s, a)
    \/ Finish(s)

Spec == Init /\ [][Next]_vars

\* Concurrent sessions, over a few inputs and backend behaviours.
FewPrompts == {StrVal(<<>>), StrVal(Hi)}
FewModelNames == { <<"g", "e", "m", "m", "a", ":", "2", "b">>, <<"g", "p", "t", "-", "o", "s", "s", ":", "1", "2", "0", "b", "-", "c", "l", "o", "u", "d">> }
FewLocalAnswers ==
  { Fault(<<>>), Response(200, DictVal(<< <<KeyResponse, StrVal(Hello)>> >>)),
    Response(500, DictVal(<<>>)) }
FewCloudAnswers ==
  { Fault(<<>>),
    Response(200, DictVal(<< <<KeyMessage, DictVal(<< <<KeyContent, StrVal(Hello)>> >>)>> >>)) }

NextC ==
  \E s \in Sessions :
    \/ \E p \in FewPrompts, m \in FewModelNames : Invoke(s, p, m)
    \/ Route(s)
    \/ \E a \in FewCloudAnswers : CloudReply(s, a)
    \/ \E a \in FewLocalAnswers : LocalReply(s, a)
    \/ Finish(s)

SpecC == Init /\ [][NextC]_vars

\* ------------------------------------------------------------- properties
\* Vocabulary of the properties, stated apart from the relay's own operators.
IsEmptyPrompt(prompt) == prompt = NoneVal \/ prompt = StrVal(<<>>)
StartsWith(s, prefix) ==
  Len(prefix) <= Len(s) /\ \A i \in 1..Len(prefix) : s[i] = prefix[i]
EndsWith(s, suffix) ==
  Len(suffix) <= Len(s)
  /\ \A i \in 1..Len(suffix) : s[Len(s) - Len(suffix) + i] = suffix[i]
HasCloud(name) ==
  \E i \in 1..Len(name) :
    /\ i + 4 <= Len(name)
    /\ name[i] = "c" /\ name[i + 1] = "l" /\ name[i + 2] = "o"
    /\ name[i + 3] = "u" /\ name[i + 4] = "d"
HasField(obj, key) == obj.t = "dict" /\ \E i \in 1..Len(obj.v) : obj.v[i][1] = key
FieldOf(obj, key) == obj.v[CHOOSE i \in 1..Len(obj.v) : obj.v[i][1] = key][2]
IsObject(x) == x.t = "dict"
Started(c) == c.pc \notin {"idle", "routing"}
ToLocal(c) == c.sent # <<>> /\ c.sent[1].to = "local"
ToCloud(c) == c.sent # <<>> /\ c.sent[1].to = "cloud"
ErrorText(desc) == Return(StrVal(AnErrorOccurred \o desc))
IsErrorText(outcome) ==
  /\ outcome.kind = "return"
  /\ outcome.val.t = "str"
  /\ StartsWith(outcome.val.v, AnErrorOccurred)
StripTrailingDashCloud(name) ==
  IF EndsWith(name, DashCloud) THEN SubSeq(name, 1, Len(name) - Len(DashCloud))
  ELSE name

\* No finished call has raised: every fault was turned into a return value.
NeverRaises == \A s \in Sessions : calls[s].pc = "done" => calls[s].outcome.kind = "return"

\* C1: every finished call has returned exactly one value, that value is
\* text, and nothing was raised to the caller.
C1_AlwaysReturnsText ==
  \A s \in Sessions :
    calls[s].pc = "done" =>
      /\ calls[s].outcome.kind = "return"
      /\ calls[s].outcome.val.t = "str"

\* C2: a call with an empty or missing prompt never sends a request, never
\* enters a backend call, and returns exactly "Please enter a prompt.",
\* whatever the model identifier and the client handle.
C2_EmptyPrompt ==
  \A s \in Sessions :
    (calls[s].pc # "idle" /\ IsEmptyPrompt(calls[s].prompt)) =>
      /\ calls[s].sent = <<>>
      /\ calls[s].pc \in {"routing", "done"}
      /\ calls[s].pc = "done" => calls[s].outcome = Return(StrVal(PleaseEnterPrompt))

C2_Witness ==
  \E s \in Sessions :
    /\ calls[s].pc = "done"
    /\ calls[s].prompt = StrVal(<<>>)
    /\ HasCloud(calls[s].model_name)
    /\ ollama_cloud_client # NoneVal
    /\ calls[s].outcome = Return(StrVal(PleaseEnterPrompt))

\* C3 as stated: with no client handle, every call whose model identifier
\* contains "cloud" returns exactly the key-not-set message and sends no
\* request, regardless of the prompt.
C3_AnyPrompt ==
  \A s \in Sessions :
    (calls[s].pc = "done" /\ HasCloud(calls[s].model_name)
       /\ ollama_cloud_client = NoneVal) =>
      /\ calls[s].outcome = Return(StrVal(ErrorKeyNotSet))
      /\ calls[s].sent = <<>>

\* C3 amended: with no client handle, every call with a non-empty prompt
\* whose model identifier contains "cloud" goes from routing straight to
\* done, returns exactly the key-not-set message and sends no request.
C3_NonEmptyPrompt ==
  \A s \in Sessions :
    (Started(calls[s]) /\ HasCloud(calls[s].model_name)
       /\ ollama_cloud_client = NoneVal /\ ~IsEmptyPrompt(calls[s].prompt)) =>
      /\ calls[s].pc = "done"
      /\ calls[s].outcome = Return(StrVal(ErrorKeyNotSet))
      /\ calls[s].sent = <<>>

C3_Witness ==
  \E s \in Sessions :
    /\ calls[s].pc = "done"
    /\ HasCloud(calls[s].model_name)
    /\ ollama_cloud_client = NoneVal
    /\ calls[s].prompt = StrVal(Hi)
    /\ calls[s].outcome = Return(StrVal(ErrorKeyNotSet))

\* C4: for a non-empty prompt the path is decided by the model identifier
\* alone: "cloud" anywhere in it selects the cloud path, and then no request
\* goes to the local endpoint (one goes to the cloud service when a client
\* handle exists); any other identifier selects the local path, and then
\* exactly one request goes to the local endpoint and none to the cloud
\* service, with or without a client handle.
C4_Routing ==
  \A s \in Sessions :
    (Started(calls[s]) /\ ~IsEmptyPrompt(calls[s].prompt)) =>
      IF HasCloud(calls[s].model_name)
      THEN /\ calls[s].pc \in {"cloud_call", "done"}
           /\ \A i \in 1..Len(calls[s].sent) : calls[s].sent[i].to = "cloud"
           /\ ollama_cloud_client # NoneVal => Len(calls[s].sent) = 1
      ELSE /\ calls[s].pc \in {"local_call", "done"}
           /\ Len(calls[s].sent) = 1
           /\ calls[s].sent[1].to = "local"

C4_Witness ==
  \E s \in Sessions :
    /\ calls[s].pc = "done"
    /\ HasCloud(calls[s].model_name)
    /\ ~EndsWith(calls[s].model_name, DashCloud)
    /\ ToCloud(calls[s])

\* C5: on the local path, after a 2xx response whose body is a JSON object,
\* the call returns the value of `response` when that field is present
\* (also when `text` is present), else the value of `text` when that field
\* is present, else the text rendering of the whole object; never an error.
C5_ThreeWayOrder ==
  \A s \in Sessions :
    (calls[s].pc = "done" /\ ToLocal(calls[s])
       /\ calls[s].answer.kind = "response"
       /\ calls[s].answer.status \in 200..299
       /\ IsObject(calls[s].answer.body)) =>
      LET body == calls[s].answer.body IN
        /\ calls[s].outcome =
             Return(IF HasField(body, KeyResponse) THEN FieldOf(body, KeyResponse)
                    ELSE IF HasField(body, KeyText) THEN FieldOf(body, KeyText)
                    ELSE StrVal(Str(body)))
        /\ body = DictVal(<< <<KeyDone, StrVal(Hi)>> >>) =>
             calls[s].outcome = Return(StrVal(<<"{", "'", "d", "o", "n", "e", "'", ":", " ", "'", "h", "i", "'", "}">>))

C5_Witness ==
  \E s \in Sessions :
    /\ calls[s].pc = "done"
    /\ ToLocal(calls[s])
    /\ calls[s].answer.status = 200
    /\ calls[s].answer.body =
         DictVal(<< <<KeyText, StrVal(Hi)>>, <<KeyResponse, StrVal(Hello)>> >>)
    /\ calls[s].outcome = Return(StrVal(Hello))

C7_TrailingSuffixOnly ==
  \A s \in Sessions :
    \A i \in 1..Len(calls[s].sent) :
      calls[s].sent[i].to = "cloud" =>
        calls[s].sent[i].model = StripTrailingDashCloud(calls[s].model_name)

\* C8: a request sent through the client handle is the only request of its
\* call and carries exactly one message, with role "user" and the caller's
\* prompt unchanged as content; when the backend answers with a message that
\* has a content field, the call returns that field's value.
C8_SingleTurnChat ==
  \A s \in Sessions :
    ToCloud(calls[s]) =>
      /\ Len(calls[s].sent) = 1
      /\ calls[s].sent[1].messages = <<[role |-> "user", content |-> calls[s].prompt]>>
      /\ ~IsEmptyPrompt(calls[s].prompt)
      /\ ollama_cloud_client # NoneVal
      /\ (calls[s].pc = "done" /\ calls[s].answer.kind = "response"
            /\ HasField(calls[s].answer.body, KeyMessage)
            /\ HasField(FieldOf(calls[s].answer.body, KeyMessage), KeyContent)) =>
           calls[s].outcome =
             Return(FieldOf(FieldOf(calls[s].answer.body, KeyMessage), KeyContent))

C8_Witness ==
  \E s \in Sessions :
    /\ calls[s].pc = "done"
    /\ ToCloud(calls[s])
    /\ calls[s].prompt = StrVal(Hi)
    /\ calls[s].answer.kind = "response"
    /\ calls[s].outcome = Return(StrVal(Hello))

\* C9: a call moves idle -> routing -> (cloud_call | local_call) -> done
\* (routing -> done only for an empty prompt or an unusable cloud path), it
\* has sent at most one request, exactly one and to the matching backend
\* while in a backend call, and a backend call is left only for done, with
\* no further request, whether the request failed or not.
PcSteps ==
  { <<"idle", "routing">>, <<"routing", "cloud_call">>, <<"routing", "local_call">>,
    <<"routing", "done">>, <<"cloud_call", "done">>, <<"local_call", "done">>,
    <<"done", "idle">> }
C9_Step(a, b) ==
  /\ a.pc # b.pc => <<a.pc, b.pc>> \in PcSteps
  /\ a.pc = b.pc => a = b
  /\ Len(b.sent) <= 1
  /\ b.pc = "cloud_call" => Len(b.sent) = 1 /\ b.sent[1].to = "cloud"
  /\ b.pc = "local_call" => Len(b.sent) = 1 /\ b.sent[1].to = "local"
  /\ (a.pc \in {"cloud_call", "local_call"} /\ b.pc = "done") => b.sent = a.sent
  /\ (a.pc = "routing" /\ b.pc = "done") =>
       /\ b.sent = <<>>
       /\ \/ IsEmptyPrompt(a.prompt)
          \/ HasCloud(a.model_name) /\ ollama_cloud_client = NoneVal
C9_NoRetry == [][\A s \in Sessions : C9_Step(calls[s], calls'[s])]_vars

C9_Witness ==
  \E s \in Sessions :
    /\ calls[s].pc = "done"
    /\ calls[s].answer.kind = "fault"
    /\ Len(calls[s].sent) = 1

\* C10: the client handle and the credential never change after start-up,
\* the handle is present only if a credential was available, and two calls
\* with the same arguments and the same backend answer have the same result,
\* however the sessions interleave.
SameResult(c, d) ==
  (c.pc = "done" /\ d.pc = "done" /\ c.prompt = d.prompt
     /\ c.model_name = d.model_name /\ c.answer = d.answer) =>
    c.outcome = d.outcome
C10_SharedState ==
  /\ [][ollama_cloud_client' = ollama_cloud_client /\ api_key' = api_key]_vars
  /\ [](ollama_cloud_client # NoneVal => (api_key.t = "str" /\ api_key.v # <<>>))
  /\ [](\A s1, s2 \in Sessions : SameResult(calls[s1], calls[s2]))

C10_Witness ==
  \E s1, s2 \in Sessions :
    /\ s1 # s2
    /\ ToCloud(calls[s1])
    /\ calls[s1].pc = "done" /\ calls[s2].pc = "done"
    /\ calls[s1].prompt = calls[s2].prompt
    /\ calls[s1].model_name = calls[s2].model_name
    /\ calls[s1].answer = calls[s2].answer
    /\ calls[s1].outcome = Return(StrVal(Hello))

====
